---- MODULE Spec2Model ----
(***************************************************************************)
(* Model of the Infineon competitive-intelligence pipeline                 *)
(* (src/infineon_intelligence_scraper.py): the model-response parser       *)
(* InfineonIntelligenceAnalyzer._parse_analysis, the daily aggregation of  *)
(* analyze_for_infineon and the per-source scrape functions.               *)
(*                                                                         *)
(* Python strings are TLA+ strings, read character by character: TLC       *)
(* evaluates Len, SubSeq and \o on strings, so every str method below is   *)
(* computed on the characters, as Python computes it.  The two emoji of    *)
(* the prompt rubric cannot be written in a TLA+ string literal; each is   *)
(* represented by one reserved character (GreenCircle, RedCircle).         *)
(***************************************************************************)
EXTENDS Integers, Sequences, FiniteSets, TLC

VARIABLES
    phase,          \* position of the parser driver: "input", "parsed", "reparsed"
    arg,            \* analysis_text handed to _parse_analysis: [type, value]
    today,          \* datetime.now().strftime('%Y-%m-%d')
    result,         \* the record _parse_analysis returned
    escaped,        \* TRUE iff the call ended with an exception reaching the caller
    first_insights  \* narrative of the first parse, kept when it is parsed again

VARIABLES
    scrape_pc,      \* position of a scrape function: "idle", "loop", "limit", "returned"
    scrape_key,     \* the source being scraped
    url_index,      \* number of candidate URLs the loop has finished with
    scrape_data,    \* the local dict data
    fetch_log,      \* what each candidate URL did, in order
    scrape_ret      \* the dict the scrape function returned

VARIABLES
    analyze_pc,       \* position of analyze_for_infineon
    data,             \* its argument: the (key, value) items of the dict, in order
    data_pos,         \* the item the aggregation loop is at
    daily_data,       \* date -> aggregated batch
    batch,            \* the capped lists handed to the model for the date
    model_text,       \* analysis_text of analyze_for_infineon, handed to the parser
    analysis_results  \* the list of records returned

VARIABLES
    sources,        \* the keys of self.sources of the scraper, in dict order
    edits,          \* number of add_source and remove_source calls so far
    all_pc,         \* position of scrape_all_sources
    all_pos,        \* the source its loop is at
    self_data       \* self.data: the (key, value) items, in order

VARIABLES
    main_pc,          \* position of main()
    main_error,       \* the step whose exception left main(), '' if none
    records,          \* analysis_results as main() holds them
    excel_table,      \* the rows written to the local workbook, header first
    sheets_table,     \* the rows sent to the remote worksheet, header first
    sheets_failure,   \* the step of the remote export that failed, '' if none
    summary_written   \* TRUE iff the summary report was written

VARIABLES
    sched_pc,       \* position of run_scheduler
    clock,          \* wall-clock time, in periods of the scheduler's sleep
    next_run,       \* the time the job is next due
    running,        \* number of pipeline processes that are running
    started_at,     \* the time the running process was launched
    job_returns     \* what each call of run_intelligence_job returned, in order

parseVars == <<phase, arg, result, escaped, first_insights>>

scrapeVars == <<scrape_pc, scrape_key, url_index, scrape_data, fetch_log, scrape_ret>>

analyzeVars ==
    <<analyze_pc, data, data_pos, daily_data, batch, model_text, analysis_results>>

allVars == <<sources, edits, all_pc, all_pos, self_data>>

mainVars ==
    <<main_pc, main_error, records, excel_table, sheets_table, sheets_failure,
      summary_written>>

schedVars == <<sched_pc, clock, next_run, running, started_at, job_returns>>

runVars == <<allVars, mainVars, schedVars>>

vars == <<today, parseVars, scrapeVars, analyzeVars, runVars>>

-----------------------------------------------------------------------------
(* Python str and list operations *)

Min(a, b) == IF a < b THEN a ELSE b

At(s, i) == SubSeq(s, i, i)

Idx(n) == [i \in 1..n |-> i]

\* str.isspace() characters that occur in the modelled texts
Whitespace == {" ", "\n", "\t"}

UpperCase == "ABCDEFGHIJKLMNOPQRSTUVWXYZ"

LowerCase == "abcdefghijklmnopqrstuvwxyz"

\* U+1F7E2 and U+1F534, one character each
GreenCircle == "@"

RedCircle == "#"

RECURSIVE CatRange(_, _, _)
\* concatenation of parts[lo..hi] (halving keeps the evaluation shallow)
CatRange(parts, lo, hi) ==
    IF lo > hi THEN ""
    ELSE IF lo = hi THEN parts[lo]
    ELSE LET mid == (lo + hi) \div 2
         IN  CatRange(parts, lo, mid) \o CatRange(parts, mid + 1, hi)

\* sep.join(parts)
Join(sep, parts) ==
    LET n == Len(parts)
        pieces == [i \in 1..(2 * n - 1) |->
                      IF i % 2 = 1 THEN parts[(i + 1) \div 2] ELSE sep]
    IN  IF n = 0 THEN "" ELSE CatRange(pieces, 1, 2 * n - 1)

UpperChars == {At(UpperCase, k) : k \in 1..Len(UpperCase)}

\* the lower-case letter of every upper-case letter
LowerOf ==
    [c \in UpperChars |->
        At(LowerCase, CHOOSE k \in 1..Len(UpperCase) : At(UpperCase, k) = c)]

LowerChar(c) == IF c \in UpperChars THEN LowerOf[c] ELSE c

\* s.lower()
Lower(s) == CatRange([i \in 1..Len(s) |-> LowerChar(At(s, i))], 1, Len(s))

\* pat in s
Contains(s, pat) ==
    \E i \in 1..(Len(s) - Len(pat) + 1) : SubSeq(s, i, i + Len(pat) - 1) = pat

\* s.startswith(pat)
StartsWith(s, pat) == Len(s) >= Len(pat) /\ SubSeq(s, 1, Len(pat)) = pat

\* s.strip()
Strip(s) ==
    LET keep == SelectSeq(Idx(Len(s)), LAMBDA i : At(s, i) \notin Whitespace)
    IN  IF keep = <<>> THEN "" ELSE SubSeq(s, keep[1], keep[Len(keep)])

\* start positions of the occurrences of sep in s.  Every separator the
\* program uses ('\n', '.', 'Date:', 'date:', 'Key insights:',
\* 'key insights:' and the artifact phrases) has no proper prefix that is
\* also a suffix, so occurrences never overlap and the left-to-right scan
\* of str.split / str.replace finds exactly these.
Occurrences(s, sep) ==
    SelectSeq(Idx(Len(s)),
              LAMBDA i : i + Len(sep) - 1 <= Len(s)
                         /\ SubSeq(s, i, i + Len(sep) - 1) = sep)

\* s.split(sep)
Split(s, sep) ==
    LET m == Occurrences(s, sep)
        n == Len(m)
    IN  [k \in 1..(n + 1) |->
            SubSeq(s, IF k = 1 THEN 1 ELSE m[k - 1] + Len(sep),
                      IF k = n + 1 THEN Len(s) ELSE m[k] - 1)]

\* s.replace(old, new)
Replace(s, old, new) == Join(new, Split(s, old))

\* s.split()
Words(s) ==
    LET n == Len(s)
        starts == SelectSeq(Idx(n),
                      LAMBDA i : At(s, i) \notin Whitespace
                                 /\ (i = 1 \/ At(s, i - 1) \in Whitespace))
        ends == SelectSeq(Idx(n),
                      LAMBDA i : At(s, i) \notin Whitespace
                                 /\ (i = n \/ At(s, i + 1) \in Whitespace))
    IN  [k \in 1..Len(starts) |-> SubSeq(s, starts[k], ends[k])]

\* x[:n] of a str or a list
Take(x, n) == SubSeq(x, 1, Min(n, Len(x)))

\* ' '.join(s.split())
NormalizeSpace(s) == Join(" ", Words(s))

\* any(k in s for k in keywords)
ContainsAny(s, keywords) == \E k \in 1..Len(keywords) : Contains(s, keywords[k])

\* d.get(key, default) of a dict
Get(d, key, default) == IF key \in DOMAIN d THEN d[key] ELSE default

\* the entries of a list of str that are not ''
NonEmpty(xs) == SelectSeq(xs, LAMBDA x : x # "")

-----------------------------------------------------------------------------
(* InfineonIntelligenceAnalyzer._parse_analysis *)

\* the word limit of the narrative ("Limit to 200 words")
WordLimit == 200

\* the character limit of the summary sentence of the unstructured fallback
SummaryChars == 200

\* current_section = None
NoSection == "None"

KeepLine(line, prefixes) ==
    line # "" /\ \A p \in prefixes : ~StartsWith(Lower(line), p)

\* split on '\n', strip every line, drop the blank lines and the lines that
\* start with one of the prefixes, re-join with ' '
FilterLines(text, prefixes) ==
    LET lines == Split(text, "\n")
        stripped == [i \in 1..Len(lines) |-> Strip(lines[i])]
    IN  Join(" ", SelectSeq(stripped, LAMBDA l : KeepLine(l, prefixes)))

\* one iteration of "for line in lines"
ScanLine(st, raw) ==
    LET line == Strip(raw)
        low == Lower(line)
    IN  IF line = "" THEN st
        ELSE IF StartsWith(low, "date:")
        THEN [st EXCEPT !.result.Date =
                 Strip(Replace(Replace(line, "Date:", ""), "date:", ""))]
        ELSE IF StartsWith(low, "key insights:")
        THEN [st EXCEPT !.current_section = "Key insights",
                        !.section_content = <<>>]
        ELSE IF StartsWith(low, "signal:")
        THEN [st EXCEPT !.current_section = "Signal", !.section_content = <<>>]
        ELSE IF StartsWith(low, "risk:")
        THEN [st EXCEPT !.current_section = "Risk", !.section_content = <<>>]
        ELSE IF st.current_section = NoSection THEN st
        ELSE LET content == Append(st.section_content, line)
             IN  IF st.current_section = "Key insights"
                 THEN [st EXCEPT
                          !.section_content = content,
                          !.result.Key_insights =
                              Strip(FilterLines(Join(" ", content),
                                                {"date:", "key insights:"}))]
                 ELSE IF st.current_section = "Signal"
                 THEN [st EXCEPT !.section_content = content,
                                 !.result.Signal = Join(" ", content)]
                 ELSE [st EXCEPT !.section_content = content,
                                 !.result.Risk = Join(" ", content)]

RECURSIVE ScanLines(_, _, _)
\* the line scan; the write-only key '_full_insights' is left out
ScanLines(lines, i, st) ==
    IF i > Len(lines) THEN st
    ELSE ScanLines(lines, i + 1, ScanLine(st, lines[i]))

\* "Limit to 200 words", first copy
LimitWords(text) ==
    LET words == Words(text)
    IN  IF Len(words) > WordLimit
        THEN LET truncated == Join(" ", Take(words, WordLimit))
                 sentences == Split(truncated, ".")
             IN  IF Len(sentences) > 1
                 THEN Join(". ", SubSeq(sentences, 1, Len(sentences) - 1)) \o "."
                 ELSE truncated \o "..."
        ELSE Join(" ", words)

\* "Clean up the parsed content"
CleanInsights(insights) ==
    LET cleaned == FilterLines(insights, {"date:", "key insights:"})
        stripped == Strip(Replace(Replace(Replace(Replace(cleaned,
                        "Date:", ""), "date:", ""),
                        "Key insights:", ""), "key insights:", ""))
    IN  LimitWords(Strip(stripped))

\* the captured text is kept as it is
NormalizeSignal_kept(signal) == signal

NormalizeSignal(signal) ==
    LET signal_lower == Lower(signal)
    IN  IF Contains(signal_lower, "positive") THEN "Positive"
        ELSE IF Contains(signal_lower, "negative") THEN "Negative"
        ELSE "Neutral"

NormalizeRisk(risk) ==
    LET risk_lower == Lower(risk)
    IN  IF Contains(risk_lower, "high") THEN "High"
        ELSE IF Contains(risk_lower, "medium") THEN "Medium"
        ELSE "Low"

\* "If no structured parsing worked, try to extract from the full text"
UnstructuredFallback(r, analysis_text) ==
    LET text_lower == Lower(analysis_text)
        sentences == Split(analysis_text, ".")
    IN  [r EXCEPT
            !.Signal = IF Contains(text_lower, "positive") THEN "Positive"
                       ELSE IF Contains(text_lower, "negative") THEN "Negative"
                       ELSE "Neutral",
            !.Risk = IF Contains(text_lower, "high") /\ Contains(text_lower, "risk")
                     THEN "High"
                     ELSE IF Contains(text_lower, "medium")
                             /\ Contains(text_lower, "risk")
                     THEN "Medium"
                     ELSE "Low",
            !.Key_insights = IF Len(sentences[1]) > SummaryChars
                             THEN Take(sentences[1], SummaryChars) \o "..."
                             ELSE sentences[1]]

\* "Extract Signal - look for the specific patterns", first copy
AdditionalSignal(text_lower) ==
    IF Contains(text_lower, GreenCircle \o " positive")
       \/ Contains(text_lower, "signal: " \o GreenCircle \o " positive")
    THEN "Positive"
    ELSE IF Contains(text_lower, RedCircle \o " negative")
            \/ Contains(text_lower, "signal: " \o RedCircle \o " negative")
    THEN "Negative"
    ELSE IF Contains(text_lower, "positive") /\ Contains(text_lower, "signal:")
    THEN "Positive"
    ELSE IF Contains(text_lower, "negative") /\ Contains(text_lower, "signal:")
    THEN "Negative"
    ELSE "Neutral"

\* "Extract Risk - look for the specific patterns", first copy
AdditionalRisk(text_lower) ==
    IF Contains(text_lower, "risk: high")
       \/ (Contains(text_lower, "high") /\ Contains(text_lower, "risk"))
    THEN "High"
    ELSE IF Contains(text_lower, "risk: medium")
            \/ (Contains(text_lower, "medium") /\ Contains(text_lower, "risk"))
    THEN "Medium"
    ELSE IF Contains(text_lower, "risk: low")
            \/ (Contains(text_lower, "low") /\ Contains(text_lower, "risk"))
    THEN "Low"
    ELSE "Low"

\* "Additional fallback parsing for Signal and Risk if they're still empty"
AdditionalFallback(r, analysis_text) ==
    LET text_lower == Lower(analysis_text)
    IN  [r EXCEPT
            !.Signal = IF @ = "" THEN AdditionalSignal(text_lower) ELSE @,
            !.Risk = IF @ = "" THEN AdditionalRisk(text_lower) ELSE @]

\* "Additional fallback parsing ..." under its condition
AdditionalStep(r, analysis_text) ==
    IF r.Signal = "" \/ r.Risk = "" THEN AdditionalFallback(r, analysis_text)
    ELSE r

\* the two fallback blocks that are indented under "if result['Risk']:"
NestedFallbacks(r, analysis_text) ==
    AdditionalStep(IF r.Key_insights = "" /\ r.Signal = "" /\ r.Risk = ""
                   THEN UnstructuredFallback(r, analysis_text)
                   ELSE r,
                   analysis_text)

\* the body of "if result['Risk']:": the normalisation of the risk level,
\* then the nested fallback blocks
RiskBlock(r, analysis_text) ==
    NestedFallbacks([r EXCEPT !.Risk = NormalizeRisk(@)], analysis_text)

\* the second copy only re-joins the words
FinalLimitWords_rejoin(text) == Join(" ", Words(text))

\* "Limit to 200 words", second copy
FinalLimitWords(text) ==
    LET words == Words(text)
    IN  IF Len(words) > WordLimit
        THEN LET truncated == Join(" ", Take(words, WordLimit))
                 sentences == Split(truncated, ".")
             IN  IF Len(sentences) > 1
                 THEN Join(". ", SubSeq(sentences, 1, Len(sentences) - 1)) \o "."
                 ELSE truncated \o "..."
        ELSE Join(" ", words)

\* "Final cleanup for key insights"
FinalCleanup(insights) ==
    LET insights_text == FilterLines(insights, {"date:"})
        parts == Split(insights_text, "key insights:")
        content == IF Contains(Lower(insights_text), "key insights:")
                      /\ Len(parts) > 1
                   THEN Strip(parts[2])
                   ELSE Strip(insights_text)
    IN  FinalLimitWords(Strip(Replace(Replace(content,
            "Key insights:", ""), "key insights:", "")))

\* "Extract Signal - look for the specific patterns", second copy
FinalSignal(text_lower) ==
    IF Contains(text_lower, GreenCircle \o " positive")
       \/ Contains(text_lower, "signal: " \o GreenCircle \o " positive")
    THEN "Positive"
    ELSE IF Contains(text_lower, RedCircle \o " negative")
            \/ Contains(text_lower, "signal: " \o RedCircle \o " negative")
    THEN "Negative"
    ELSE IF Contains(text_lower, "positive") /\ Contains(text_lower, "signal:")
    THEN "Positive"
    ELSE IF Contains(text_lower, "negative") /\ Contains(text_lower, "signal:")
    THEN "Negative"
    ELSE "Neutral"

\* "Extract Risk - look for the specific patterns", second copy
FinalRisk(text_lower) ==
    IF Contains(text_lower, "risk: high")
       \/ (Contains(text_lower, "high") /\ Contains(text_lower, "risk"))
    THEN "High"
    ELSE IF Contains(text_lower, "risk: medium")
            \/ (Contains(text_lower, "medium") /\ Contains(text_lower, "risk"))
    THEN "Medium"
    ELSE IF Contains(text_lower, "risk: low")
            \/ (Contains(text_lower, "low") /\ Contains(text_lower, "risk"))
    THEN "Low"
    ELSE "Low"

\* "Final fallback parsing for Signal and Risk if they're still empty"
FinalFallback(r, analysis_text) ==
    LET text_lower == Lower(analysis_text)
    IN  [r EXCEPT
            !.Signal = IF @ = "" THEN FinalSignal(text_lower) ELSE @,
            !.Risk = IF @ = "" THEN FinalRisk(text_lower) ELSE @]

\* the record of the except branch
ErrorRecord(source, now) ==
    [Date |-> now, Source |-> source, Key_insights |-> "Analysis parsing error",
     Signal |-> "Neutral", Risk |-> "Low"]

\* what a caller holds when no record was returned to it
NoRecord ==
    [Date |-> "", Source |-> "", Key_insights |-> "", Signal |-> "", Risk |-> ""]

\* result = {...} and the line scan
ScanResponse(text, source, now) ==
    ScanLines(Split(text, "\n"), 1,
              [result |-> [Date |-> now, Source |-> source, Key_insights |-> "",
                           Signal |-> "", Risk |-> ""],
               current_section |-> NoSection,
               section_content |-> <<>>]).result

\* "if result['Key insights']:" (clean up the parsed content)
CleanStep(r) ==
    IF r.Key_insights # "" THEN [r EXCEPT !.Key_insights = CleanInsights(@)]
    ELSE r

\* "if result['Signal']:"
SignalStep(r) ==
    IF r.Signal # "" THEN [r EXCEPT !.Signal = NormalizeSignal(@)] ELSE r

\* "if result['Risk']:"
RiskStep(r, analysis_text) ==
    IF r.Risk # "" THEN RiskBlock(r, analysis_text) ELSE r

\* "if result['Key insights']:" (final cleanup)
FinalCleanupStep(r) ==
    IF r.Key_insights # "" THEN [r EXCEPT !.Key_insights = FinalCleanup(@)]
    ELSE r

\* the try block: [raised, value].  analysis_text.split('\n') raises
\* AttributeError when analysis_text is not a str; on a str no step raises.
ParseBody(analysis_text, source, now) ==
    IF analysis_text.type # "str"
    THEN [raised |-> TRUE, value |-> NoRecord]
    ELSE [raised |-> FALSE,
          value |-> FinalFallback(
                        FinalCleanupStep(
                            RiskStep(
                                SignalStep(
                                    CleanStep(
                                        ScanResponse(analysis_text.value,
                                                     source, now))),
                                analysis_text.value)),
                        analysis_text.value)]

\* the exception reaches the caller: no except branch
parse_analysis_unguarded(analysis_text, source, now) ==
    ParseBody(analysis_text, source, now)

\* _parse_analysis(analysis_text, source): try block and except branch
parse_analysis(analysis_text, source, now) ==
    LET body == ParseBody(analysis_text, source, now)
    IN  IF body.raised
        THEN [raised |-> FALSE, value |-> ErrorRecord(source, now)]
        ELSE body

-----------------------------------------------------------------------------
(* The responses handed to _parse_analysis *)

\* most lines of a generated response
MaxLines == 3

\* how far past the word limit the long narratives go
ExtraWords == 1

\* the dates datetime.now() may give
Dates == {"2025-01-11", "2025-02-01"}

\* f"Daily Analysis - {', '.join(all_sources)}" for one source
SourceLabel == "Daily Analysis - Canary Media"

\* the response in the requested shape, content on the header lines
ShapedResponse ==
    "Date: 2025-01-10\nKey insights: Strong growth\nSignal: " \o GreenCircle
    \o " Positive reasoning\nRisk: risk: high reasoning"

\* a response with no section-header line
FreeFormResponse ==
    "Things look mixed. negative sentiment expected. risk is medium overall."

\* a response with every header on a line of its own
SectionedResponse ==
    "Date: 2025-01-10\nKey insights:\nStrong growth in AI. Orders up 3.5 percent\n"
    \o "still positive\nSignal:\n" \o RedCircle
    \o " Negative, competitors gain\nRisk:\nMedium, within 6-12 months"

\* the texts analyze_for_infineon substitutes for a model response
InsufficientDataText ==
    "Unable to generate analysis due to insufficient data. "
    \o "Need at least 2 data points from sources."

EmptyResponseText == "Unable to generate analysis due to insufficient data."

\* str(e) of a failed model call
ErrorMessages == {"timeout", "The model does not exist"}

InvalidRequestText(e) ==
    "Model configuration error: " \o e \o ". Please check OPENAI_MODEL setting."

AuthenticationText(e) ==
    "Authentication error: " \o e \o ". Please check OPENAI_API_KEY."

OtherErrorText(e) == "Error in AI analysis: " \o e

\* the lines the generated responses are made of
LineChoices ==
    {"Key insights:", "Signal:", "Risk:", "Date: 2025-01-10",
     "Strong growth. positive outlook", "high risk of delay",
     "Signal: Negative", "  medium  term "}

GeneratedResponses ==
    UNION {{Join("\n", ls) : ls \in [1..n -> LineChoices]} : n \in 1..MaxLines}

\* the words the long narratives repeat: a plain word, a word that ends a
\* sentence, a decimal
LongWords == {"word", "done.", "3.5"}

Repeat(w, n) == Join(" ", [i \in 1..n |-> w])

LongResponses ==
    {"Key insights:\n" \o Repeat(w, n) \o "\nSignal:\nNeutral" :
        w \in LongWords, n \in (WordLimit - 1)..(WordLimit + ExtraWords)}
    \cup {"Key insights:\n" \o Repeat("word", WordLimit - 1) \o " 3.5 "
          \o Repeat(w, n) : w \in LongWords, n \in 1..(1 + ExtraWords)}

\* a response in the requested shape that names the lowest risk level after
\* a narrative that uses the word "high"
LowRiskResponse ==
    "Date: 2025-01-10\nKey insights: Demand is high in Asia\nSignal: Neutral\n"
    \o "Risk: Low"

FixedResponses ==
    {ShapedResponse, FreeFormResponse, SectionedResponse, InsufficientDataText,
     EmptyResponseText, "", LowRiskResponse}
    \cup {InvalidRequestText(e) : e \in ErrorMessages}
    \cup {AuthenticationText(e) : e \in ErrorMessages}
    \cup {OtherErrorText(e) : e \in ErrorMessages}

Str(s) == [type |-> "str", value |-> s]

\* a value that is not a str (its .split raises AttributeError)
PyNone == [type |-> "NoneType", value |-> ""]

ParseInputs ==
    {Str(s) : s \in FixedResponses \cup GeneratedResponses \cup LongResponses}
    \cup {PyNone}

-----------------------------------------------------------------------------
(* The parser applied to a response, and once more to its own narrative *)

\* no scrape function is running
AllIdle ==
    /\ sources = <<>>
    /\ edits = 0
    /\ all_pc = "idle"
    /\ all_pos = 0
    /\ self_data = <<>>

MainIdle ==
    /\ main_pc = "idle"
    /\ main_error = ""
    /\ records = <<>>
    /\ excel_table = <<>>
    /\ sheets_table = <<>>
    /\ sheets_failure = ""
    /\ summary_written = FALSE

SchedIdle ==
    /\ sched_pc = "idle"
    /\ clock = 0
    /\ next_run = 0
    /\ running = 0
    /\ started_at = 0
    /\ job_returns = <<>>

RunIdle == AllIdle /\ MainIdle /\ SchedIdle

ScrapeIdle ==
    /\ scrape_pc = "idle"
    /\ scrape_key = ""
    /\ url_index = 0
    /\ scrape_data = <<>>
    /\ fetch_log = <<>>
    /\ scrape_ret = <<>>

\* analyze_for_infineon is not running
AnalyzeIdle ==
    /\ analyze_pc = "idle"
    /\ data = <<>>
    /\ data_pos = 0
    /\ daily_data = <<>>
    /\ batch = <<>>
    /\ model_text = PyNone
    /\ analysis_results = <<>>

\* no response is being parsed on its own
ParseIdle ==
    /\ phase = "idle"
    /\ arg = PyNone
    /\ result = NoRecord
    /\ escaped = FALSE
    /\ first_insights = ""

InitParse ==
    /\ phase = "input"
    /\ arg \in ParseInputs
    /\ today \in Dates
    /\ result = NoRecord
    /\ escaped = FALSE
    /\ first_insights = ""
    /\ ScrapeIdle
    /\ AnalyzeIdle
    /\ RunIdle

Parse ==
    /\ phase = "input"
    /\ LET out == parse_analysis(arg, SourceLabel, today)
       IN  /\ result' = out.value
           /\ escaped' = out.raised
    /\ phase' = "parsed"
    /\ UNCHANGED <<arg, today, runVars, first_insights, scrapeVars, analyzeVars>>

Reparse ==
    /\ phase = "parsed"
    /\ ~escaped
    /\ LET again == Str(result.Key_insights)
           out == parse_analysis(again, SourceLabel, today)
       IN  /\ arg' = again
           /\ result' = out.value
           /\ escaped' = out.raised
    /\ first_insights' = result.Key_insights
    /\ phase' = "reparsed"
    /\ UNCHANGED <<today, runVars, scrapeVars, analyzeVars>>

NextParse == Parse \/ Reparse

SpecParse == InitParse /\ [][NextParse]_vars

-----------------------------------------------------------------------------
(* Properties of _parse_analysis, checked under SpecParse *)

Signals == {"Positive", "Neutral", "Negative"}

Risks == {"Low", "Medium", "High"}

\* the response of the first parse has been parsed
Parsed(s) == phase = "parsed" /\ arg = Str(s)

\* C1: the response in the requested shape (each header followed by its
\* content on the same line) is parsed to Date 2025-01-10, Key insights
\* "Strong growth", Signal Positive, Risk High.
C1_ShapedResponseRecord ==
    Parsed(ShapedResponse) =>
        /\ result.Date = "2025-01-10"
        /\ result.Key_insights = "Strong growth"
        /\ result.Signal = "Positive"
        /\ result.Risk = "High"

\* C2: the response without section headers is parsed to Signal Negative
\* (keyword match on the full text) and Risk Medium.
C2_FreeFormSignalRisk ==
    Parsed(FreeFormResponse) =>
        result.Signal = "Negative" /\ result.Risk = "Medium"

\* C3: for every non-empty input text the returned record has Signal in
\* {Positive, Neutral, Negative} and Risk in {Low, Medium, High}, whichever
\* capture or fallback path produced them.
C3_SignalRiskAreEnums ==
    (phase # "input" /\ arg.type = "str" /\ arg.value # "") =>
        result.Signal \in Signals /\ result.Risk \in Risks

\* a captured signal section of free text was reduced to a category, and
\* a risk left empty by the line scan was filled in by the final fallback
C3_Witness ==
    /\ Parsed("Signal:\nStrong growth. positive outlook\nhigh risk of delay")
    /\ result.Signal = "Positive"
    /\ result.Risk = "High"

\* C4: the narrative of every returned record has at most 200
\* whitespace-separated words, also when the captured text exceeds 200
\* words, is re-joined at periods with '. ' and has periods inside words.
C4_NarrativeWordLimit ==
    phase # "input" => Len(Words(result.Key_insights)) <= WordLimit

\* more than 200 captured decimals, cut and re-joined at their periods
C4_Witness ==
    /\ Parsed("Key insights:\n" \o Repeat("3.5", WordLimit + 1)
              \o "\nSignal:\nNeutral")
    /\ ~Contains(result.Key_insights, "3.5")
    /\ Len(Words(result.Key_insights)) = WordLimit - 1

\* the line scan captured nothing for Key insights, Signal and Risk
NothingCaptured(r) == r.Key_insights = "" /\ r.Signal = "" /\ r.Risk = ""

ScanCapturedNothing(text) == NothingCaptured(ScanResponse(text, "", ""))

\* the first period-delimited sentence, limited to 200 characters
FirstSentence(text) ==
    LET first == Split(text, ".")[1]
    IN  IF Len(first) > SummaryChars
        THEN Take(first, SummaryChars) \o "..."
        ELSE first

\* C5: when the line scan captures nothing for any of Key insights, Signal
\* and Risk, the narrative is the first period-delimited sentence of the
\* raw text, limited to 200 characters.
C5_FallbackNarrative ==
    (phase = "parsed" /\ arg.type = "str" /\ ScanCapturedNothing(arg.value)) =>
        result.Key_insights = FirstSentence(arg.value)

\* C7: _parse_analysis never raises to its caller; an internal error
\* yields the record "Analysis parsing error" / Neutral / Low with the
\* given source label.
C7_NeverRaises ==
    phase # "input" =>
        /\ ~escaped
        /\ arg.type # "str" => result = ErrorRecord(SourceLabel, today)

\* a response that is not a str was parsed
C7_Witness ==
    /\ phase = "parsed"
    /\ arg = PyNone
    /\ result.Key_insights = "Analysis parsing error"
    /\ result.Source = SourceLabel

\* C8: parsing the narrative of a returned record again yields the same
\* narrative.
C8_ReparseIdempotent ==
    phase = "reparsed" => result.Key_insights = first_insights

-----------------------------------------------------------------------------
(* ConfigurableIntelligenceScraper.scrape_canary, scrape_industryweek and   *)
(* scrape_eia: one text, three keyword profiles                             *)

\* news_items[:10] and find_all(..., limit=10)
ItemLimit == 10

\* the open length window of a headline
HeadlineMin == 10

HeadlineMax == 200

\* the open length window of an insight or signal sentence
SentenceMin == 20

SentenceMax == 300

\* data[...][:5]
ResultLimit == 5

Digits == {"0", "1", "2", "3", "4", "5", "6", "7", "8", "9"}

\* the navigation words that disqualify a headline
SkipWords ==
    <<"menu", "navigation", "search", "close", "skip", "subscribe", "newsletter">>

\* per source: display name, candidate URLs, keywords of the insight
\* sentences, keywords of the market signals
Profiles ==
    [canary |->
        [name |-> "Canary Media",
         news_urls |-> <<"https://www.canarymedia.com/",
                         "https://www.canarymedia.com/articles",
                         "https://www.canarymedia.com/news",
                         "https://www.canarymedia.com/energy">>,
         insight_keywords |-> <<"energy", "electricity", "renewable", "solar",
                                "wind", "battery", "emission", "carbon", "clean",
                                "transition">>,
         signal_keywords |-> <<"renewable", "solar", "wind", "battery",
                               "electric vehicle", "green energy", "carbon",
                               "emission", "transition", "clean energy">>],
     industryweek |->
        [name |-> "Industry Week",
         news_urls |-> <<"https://www.industryweek.com/",
                         "https://www.industryweek.com/news",
                         "https://www.industryweek.com/technology",
                         "https://www.industryweek.com/operations">>,
         insight_keywords |-> <<"manufacturing", "production", "automation",
                                "technology", "industry", "supply chain",
                                "efficiency", "productivity">>,
         signal_keywords |-> <<"manufacturing", "production", "automation",
                               "technology", "industry", "supply chain",
                               "efficiency", "productivity", "semiconductor",
                               "automotive">>],
     eia |->
        [name |-> "EIA Today in Energy",
         news_urls |-> <<"https://www.eia.gov/todayinenergy/",
                         "https://www.eia.gov/todayinenergy/index.php",
                         "https://www.eia.gov/outlooks/steo/",
                         "https://www.eia.gov/">>,
         insight_keywords |-> <<"energy", "electricity", "oil", "gas", "coal",
                                "renewable", "solar", "wind", "battery",
                                "emission", "carbon", "consumption", "production">>,
         signal_keywords |-> <<"energy", "electricity", "oil", "gas", "coal",
                               "renewable", "solar", "wind", "battery",
                               "emission", "carbon", "consumption", "production",
                               "market", "price">>]]

SourceKeys == <<"canary", "industryweek", "eia">>

\* datetime.now().isoformat()
Timestamp(now) == now \o "T09:30:00"

\* text.strip(), ' '.join(text.split()) and the acceptance test of a
\* headline; '' stands for a rejected one
HeadlineText(raw) == NormalizeSpace(Strip(raw))

AcceptedHeadline(text) ==
    IF text # "" /\ Len(text) > HeadlineMin /\ Len(text) < HeadlineMax
       /\ ~ContainsAny(Lower(text), SkipWords)
    THEN text
    ELSE ""

\* "Extract headlines from news items": item.find([...]) of the first 10
ItemHeadlines(page) ==
    NonEmpty([i \in 1..Min(ItemLimit, Len(page.items)) |->
                 IF page.items[i].has_heading
                 THEN AcceptedHeadline(HeadlineText(page.items[i].text))
                 ELSE ""])

\* "If no headlines found, try general content extraction"
DocumentHeadlines(page) ==
    NonEmpty([i \in 1..Min(ItemLimit, Len(page.headings)) |->
                 AcceptedHeadline(HeadlineText(page.headings[i]))])

HeadlinesStep(headlines, page) ==
    IF headlines = <<>> THEN DocumentHeadlines(page) ELSE headlines

HasDigit(s) == \E i \in 1..Len(s) : At(s, i) \in Digits

InWindow(sentence) == SentenceMin < Len(sentence) /\ Len(sentence) < SentenceMax

\* the whitespace-normalised sentence if it is long enough, else ''
CleanSentence(sentence) ==
    IF Len(NormalizeSpace(sentence)) > SentenceMin
    THEN NormalizeSpace(sentence)
    ELSE ""

InsightOf(sentence, keywords) ==
    IF HasDigit(sentence) /\ InWindow(sentence)
       /\ ContainsAny(Lower(sentence), keywords)
    THEN CleanSentence(sentence)
    ELSE ""

StrippedSentences(sentences) == [i \in 1..Len(sentences) |-> Strip(sentences[i])]

\* "Look for numbers and statistics in context"
InsightsOf(sentences, keywords) ==
    NonEmpty([i \in 1..Len(sentences) |-> InsightOf(sentences[i], keywords)])

ExtractInsights(content, keywords) ==
    InsightsOf(StrippedSentences(Split(content, ".")), keywords)

SignalOf(sentence, keyword) ==
    IF Contains(Lower(sentence), Lower(keyword)) /\ InWindow(sentence)
    THEN CleanSentence(sentence)
    ELSE ""

\* the first sentence appended for the keyword (the loop breaks after it)
FirstSignal(candidates) == IF candidates = <<>> THEN "" ELSE candidates[1]

KeywordSignal(content, sentences, keyword) ==
    IF Contains(Lower(content), Lower(keyword))
    THEN FirstSignal(NonEmpty([i \in 1..Len(sentences) |->
                                  SignalOf(sentences[i], keyword)]))
    ELSE ""

SignalsOf(content, sentences, keywords) ==
    NonEmpty([k \in 1..Len(keywords) |->
                 KeywordSignal(content, sentences, keywords[k])])

\* "Extract market signals from recent news"
ExtractSignals(content, keywords) ==
    SignalsOf(content, StrippedSentences(Split(content, ".")), keywords)

\* the body of the try block of one candidate URL once the page is parsed
ScrapePage(d, url, page, profile) ==
    [d EXCEPT
        !.url = url,
        !.headlines = HeadlinesStep(@ \o ItemHeadlines(page), page),
        !.key_insights = @ \o ExtractInsights(page.content, profile.insight_keywords),
        !.market_signals = @ \o ExtractSignals(page.content, profile.signal_keywords)]

\* the dict as it is, without the [:5]
LimitResults_uncapped(d) == d

\* "Limit results to avoid token limits"
LimitResults(d) ==
    [d EXCEPT !.headlines = Take(@, ResultLimit),
              !.key_insights = Take(@, ResultLimit),
              !.market_signals = Take(@, ResultLimit)]

\* the dict of the outer except branch
ScrapeError(name, message, now) ==
    [source |-> name, error |-> message, timestamp |-> Timestamp(now)]

\* the dict the function starts from
InitialData(name, now) ==
    [source |-> name, timestamp |-> Timestamp(now), url |-> "",
     headlines |-> <<>>, key_insights |-> <<>>, market_signals |-> <<>>]

\* the loop without its break
FoundAnything_never(d) == FALSE

\* "if data['headlines'] or data['key_insights'] or data['market_signals']"
FoundAnything(d) ==
    d.headlines # <<>> \/ d.key_insights # <<>> \/ d.market_signals # <<>>

(* pages a site can answer with: the elements matched by the selectors (with *)
(* the text of the heading found inside each, if any), the h1/h2/h3 of the  *)
(* document, and soup.get_text()                                            *)

Heading(text) == [has_heading |-> TRUE, text |-> text]

Bare == [has_heading |-> FALSE, text |-> ""]

PageEnergy ==
    [items |-> <<Heading("  Solar and battery\n storage boom in Texas "), Bare>>,
     headings |-> <<"Solar and battery storage boom in Texas">>,
     content |-> "Solar and battery storage boom in Texas\nSolar capacity grew 25 percent across the market in 2024. Battery prices fell again this year. Short 1."]

PageIndustry ==
    [items |-> <<Bare, Bare>>,
     headings |-> <<"Search", "Manufacturing automation gains pace">>,
     content |-> "Search\nManufacturing automation gains pace\nProduction rose 3 percent as more factories adopted automation. Energy costs stayed flat for industry."]

PageNavigation ==
    [items |-> <<Heading("Subscribe to our newsletter"), Heading("Menu")>>,
     headings |-> <<"Subscribe to our newsletter", "Menu">>,
     content |-> "Subscribe to our newsletter\nMenu\nAll rights reserved 2025."]

PageBlank == [items |-> <<>>, headings |-> <<>>, content |-> ""]

ManyHeadlines ==
    <<"Grid operators plan new lines across three states",
      "Factories report record output",
      "Offshore projects win approval", "Utilities raise their forecasts",
      "Chip makers expand capacity", "Storage tenders oversubscribed",
      "Heat pumps outsell boilers">>

PageMany ==
    [items |-> [i \in 1..Len(ManyHeadlines) |-> Heading(ManyHeadlines[i])],
     headings |-> ManyHeadlines,
     content |-> "no statistics here"]

\* one sentence longer than the analyzer's max_chars
PageLong ==
    [items |-> <<Bare>>,
     headings |-> <<"Chip demand">>,
     content |-> "Chip demand\nSemiconductor production for solar inverters and industrial automation is expected to grow 12 percent a year as energy demand from factories, data centers and vehicle charging keeps rising."]

Pages == {PageEnergy, PageIndustry, PageNavigation, PageBlank, PageMany, PageLong}

\* what requests raises when a fetch fails
FetchErrors == {"ConnectionError", "HTTPError 503"}

ScrapeProfile == Profiles[scrape_key]

InitScrape ==
    /\ today \in Dates
    /\ scrape_key \in {SourceKeys[i] : i \in 1..Len(SourceKeys)}
    /\ scrape_pc = "loop"
    /\ url_index = 1
    /\ scrape_data = InitialData(Profiles[scrape_key].name, today)
    /\ fetch_log = <<>>
    /\ scrape_ret = <<>>
    /\ ParseIdle
    /\ AnalyzeIdle
    /\ RunIdle

\* session.get, raise_for_status or BeautifulSoup raises: the except branch
\* logs and continues with the next candidate
FetchFails ==
    /\ scrape_pc = "loop"
    /\ url_index <= Len(ScrapeProfile.news_urls)
    /\ \E e \in FetchErrors : fetch_log' = Append(fetch_log, e)
    /\ url_index' = url_index + 1
    /\ UNCHANGED <<today, runVars, scrape_pc, scrape_key, scrape_data, scrape_ret,
                   parseVars, analyzeVars>>

\* the candidate answers: extract, and leave the loop if anything was found
FetchPage ==
    /\ scrape_pc = "loop"
    /\ url_index <= Len(ScrapeProfile.news_urls)
    /\ \E page \in Pages :
          scrape_data' = ScrapePage(scrape_data, ScrapeProfile.news_urls[url_index],
                                    page, ScrapeProfile)
    /\ fetch_log' = Append(fetch_log, "ok")
    /\ IF FoundAnything(scrape_data')
       THEN scrape_pc' = "after_loop" /\ url_index' = url_index
       ELSE scrape_pc' = scrape_pc /\ url_index' = url_index + 1
    /\ UNCHANGED <<today, runVars, scrape_key, scrape_ret, parseVars, analyzeVars>>

\* after the loop, by break or by exhaustion: truncate and return data
ReturnData ==
    /\ \/ scrape_pc = "after_loop"
       \/ scrape_pc = "loop" /\ url_index > Len(ScrapeProfile.news_urls)
    /\ scrape_ret' = LimitResults(scrape_data)
    /\ scrape_pc' = "returned"
    /\ UNCHANGED <<today, runVars, scrape_key, url_index, scrape_data, fetch_log,
                   parseVars, analyzeVars>>

NextScrape == FetchFails \/ FetchPage \/ ReturnData

SpecScrape == InitScrape /\ [][NextScrape]_vars

-----------------------------------------------------------------------------
(* InfineonIntelligenceAnalyzer.analyze_for_infineon                        *)

\* most sources in the data handed to the analyzer
MaxSources == 2

\* "Limit to 2 headlines", "Limit to 2 insights", "Limit to 2 signals"
PerSourceLimit == 2

\* "Limit to 5 headlines" of the day
BatchLimit == 5

\* the open lower bound of a kept text and max_chars
MinChars == 30

MaxChars == 150

\* "Need at least 2 data points from sources"
MinDataPoints == 2

Artifacts ==
    <<"Toggle filter", "Chevron down", "Read documentation", "cross",
      "Back to homepage", "Contact Us", "Useful links", "Latest insights",
      "Latest updates", "Open data", "About us", "Careers",
      "Toggle navigation", "My User", "Create account", "Log in",
      "View form", "View source", "History", "Refresh", "What links here",
      "Browse Properties", "From Open Energy Information">>

\* the keywords of a text kept at its own length
RelevantKeywords ==
    <<"ai", "artificial intelligence", "industrial", "manufacturing", "automation",
      "predictive maintenance", "edge computing", "iot", "smart", "efficiency",
      "reliability", "sustainability", "semiconductor", "chip", "power",
      "motor", "drive", "equipment", "optimization", "machine learning",
      "energy", "electricity", "renewable", "solar", "wind", "battery",
      "emission", "carbon", "clean", "transition", "investment", "market",
      "technology", "research", "production", "factory", "industry">>

\* the keywords of a truncated text
TruncatedKeywords ==
    <<"ai", "artificial intelligence", "industrial", "manufacturing", "automation",
      "predictive maintenance", "edge computing", "iot", "smart", "efficiency",
      "reliability", "sustainability", "semiconductor", "chip", "power">>

\* "for artifact in artifacts: cleaned_text = cleaned_text.replace(artifact, '')"
\* for the first n artifacts
RECURSIVE RemoveArtifacts(_, _)
RemoveArtifacts(text, n) ==
    IF n = 0
    THEN text
    ELSE LET cleaned_text == RemoveArtifacts(text, n - 1)
         IN  IF cleaned_text = ""
             THEN ""
             ELSE Replace(cleaned_text, Artifacts[n], "")

CleanedText(text) ==
    NormalizeSpace(RemoveArtifacts(NormalizeSpace(text), Len(Artifacts)))

Truncated(cleaned_text) == SubSeq(cleaned_text, 1, MaxChars) \o "..."

\* the same without the keyword test of a text kept at its own length
KeptText_unfiltered(cleaned_text) ==
    IF Len(cleaned_text) > MinChars /\ Len(cleaned_text) < MaxChars
    THEN cleaned_text
    ELSE IF Len(cleaned_text) >= MaxChars
            /\ ContainsAny(Lower(Truncated(cleaned_text)), TruncatedKeywords)
         THEN Truncated(cleaned_text)
         ELSE ""

\* what one text contributes to cleaned; '' stands for nothing
KeptText(cleaned_text) ==
    IF Len(cleaned_text) > MinChars /\ Len(cleaned_text) < MaxChars
    THEN IF ContainsAny(Lower(cleaned_text), RelevantKeywords)
         THEN cleaned_text
         ELSE ""
    ELSE IF Len(cleaned_text) >= MaxChars
            /\ ContainsAny(Lower(Truncated(cleaned_text)), TruncatedKeywords)
         THEN Truncated(cleaned_text)
         ELSE ""

clean_and_truncate_text(text_list) ==
    NonEmpty([i \in 1..Len(text_list) |-> KeptText(CleanedText(text_list[i]))])

\* source_data.get(field, [])[:2], cleaned
Contribution(source_data, field) ==
    clean_and_truncate_text(Take(Get(source_data, field, <<>>), PerSourceLimit))

EmptyDay == [sources |-> <<>>, headlines |-> <<>>, insights |-> <<>>, signals |-> <<>>]

\* the loop's test without its second operand
IsSkipped_timestamp_only(item) == item.key = "scraping_timestamp"

\* "if source_key == 'scraping_timestamp' or 'error' in source_data: continue"
\* (the second operand is evaluated only for the dict of a source)
IsSkipped(item) ==
    IF item.key = "scraping_timestamp"
    THEN TRUE
    ELSE "error" \in DOMAIN item.value

\* "Aggregate data by day"
ExtendDay(day, source_data) ==
    [sources |-> Append(day.sources, Get(source_data, "source", "Unknown")),
     headlines |-> day.headlines \o Contribution(source_data, "headlines"),
     insights |-> day.insights \o Contribution(source_data, "key_insights"),
     signals |-> day.signals \o Contribution(source_data, "market_signals")]

AggregateItem(days, date, source_data) ==
    (date :> ExtendDay(Get(days, date, EmptyDay), source_data)) @@ days

\* the day's lists without the [:5]
BatchOf_uncapped(date, aggregated_data) ==
    [date |-> date,
     all_headlines |-> aggregated_data.headlines,
     all_insights |-> aggregated_data.insights,
     all_signals |-> aggregated_data.signals,
     all_sources |-> aggregated_data.sources]

\* "Combine all data for the day"
BatchOf(date, aggregated_data) ==
    [date |-> date,
     all_headlines |-> Take(aggregated_data.headlines, BatchLimit),
     all_insights |-> Take(aggregated_data.insights, BatchLimit),
     all_signals |-> Take(aggregated_data.signals, BatchLimit),
     all_sources |-> aggregated_data.sources]

\* the count with the batch's sources added in
total_data_points_with_sources(b) ==
    Len(b.all_headlines) + Len(b.all_insights) + Len(b.all_signals)
    + Len(b.all_sources)

total_data_points(b) ==
    Len(b.all_headlines) + Len(b.all_insights) + Len(b.all_signals)

\* f"Daily Analysis - {', '.join(all_sources)}"
BatchLabel(b) == "Daily Analysis - " \o Join(", ", b.all_sources)

\* response.choices[0].message.content
ResponseContents ==
    {Str(ShapedResponse), Str(FreeFormResponse), Str(SectionedResponse), Str(""),
     PyNone}

\* str(e) of the TypeError that len(None) raises
NoLenMessage == "object of type 'NoneType' has no len()"

\* analysis_text after a call that returned
TextOfContent(content) ==
    IF content.type # "str"
    THEN OtherErrorText(NoLenMessage)
    ELSE IF content.value = "" THEN EmptyResponseText ELSE content.value

ErrorTexts(e) == {InvalidRequestText(e), AuthenticationText(e), OtherErrorText(e)}

(* the data handed to the analyzer: per source key what its scrape function *)
(* returned, in the order of the scraper's sources, then the timestamp       *)

\* what a scrape returns when its first candidate answers with the page
ScrapeResultOf(key, page, now) ==
    LimitResults(ScrapePage(InitialData(Profiles[key].name, now),
                            Profiles[key].news_urls[1], page, Profiles[key]))

\* lists that only an error-tagged result holds
StaleLists ==
    [headlines |-> <<"Stale headline on the solar market kept from a failed run">>,
     key_insights |-> <<"Stale insight: battery production fell 40 percent last year">>,
     market_signals |-> <<"Stale signal about semiconductor investment in Europe">>]

ResultKinds == {"energy", "long", "many", "failed", "error", "error_lists"}

ResultOf(kind, key, now) ==
    CASE kind = "energy" -> ScrapeResultOf(key, PageEnergy, now)
      [] kind = "long" -> ScrapeResultOf(key, PageLong, now)
      [] kind = "many" -> ScrapeResultOf(key, PageMany, now)
      [] kind = "failed" -> LimitResults(InitialData(Profiles[key].name, now))
      [] kind = "error" -> ScrapeError(Profiles[key].name, "boom", now)
      [] kind = "error_lists" ->
            ScrapeError(Profiles[key].name, "boom", now) @@ StaleLists

KeysOf(choice) == {choice[i].key : i \in 1..Len(choice)}

\* the lists of at most n sources with distinct keys, each with a kind of result
RECURSIVE SourceLists(_)
SourceLists(n) ==
    IF n = 0
    THEN {<<>>}
    ELSE SourceLists(n - 1)
         \cup {Append(c, [key |-> SourceKeys[k], kind |-> r]) :
                  c \in {x \in SourceLists(n - 1) : Len(x) = n - 1},
                  k \in 1..Len(SourceKeys), r \in ResultKinds}

DistinctKeys(choice) == Cardinality(KeysOf(choice)) = Len(choice)

\* the kinds of result whose lists survive the analyzer's cleaning
RichKinds == {"energy", "long"}

\* every configured source returned such a result, in any order of the keys
FullLists ==
    {c \in [1..Len(SourceKeys) ->
                [key : {SourceKeys[k] : k \in 1..Len(SourceKeys)}, kind : RichKinds]] :
        DistinctKeys(c)}

\* the results by kind, key and day, worked out once
Results ==
    [kind \in ResultKinds |->
        [key \in {SourceKeys[k] : k \in 1..Len(SourceKeys)} |->
            [now \in Dates |-> ResultOf(kind, key, now)]]]

\* self.data of scrape_all_sources
DataOf(choice, now) ==
    [i \in 1..Len(choice) |->
        [key |-> choice[i].key, value |-> Results[choice[i].kind][choice[i].key][now]]]
    \o <<[key |-> "scraping_timestamp", value |-> Timestamp(now)]>>

InitAnalyze ==
    /\ today \in Dates
    /\ \E choice \in {c \in SourceLists(MaxSources) : DistinctKeys(c)} \cup FullLists :
          data = DataOf(choice, today)
    /\ analyze_pc = "aggregate"
    /\ data_pos = 1
    /\ daily_data = <<>>
    /\ batch = <<>>
    /\ model_text = PyNone
    /\ analysis_results = <<>>
    /\ ParseIdle
    /\ ScrapeIdle
    /\ RunIdle

\* one iteration of "for source_key, source_data in data.items()" that continues
SkipItem ==
    /\ analyze_pc = "aggregate"
    /\ data_pos <= Len(data)
    /\ IsSkipped(data[data_pos])
    /\ data_pos' = data_pos + 1
    /\ UNCHANGED <<today, runVars, analyze_pc, data, daily_data, batch, model_text,
                   analysis_results, parseVars, scrapeVars>>

\* one iteration that cleans the source's lists and adds them to the day
AddItem ==
    /\ analyze_pc = "aggregate"
    /\ data_pos <= Len(data)
    /\ ~IsSkipped(data[data_pos])
    /\ daily_data' = AggregateItem(daily_data, today, data[data_pos].value)
    /\ data_pos' = data_pos + 1
    /\ UNCHANGED <<today, runVars, analyze_pc, data, batch, model_text, analysis_results,
                   parseVars, scrapeVars>>

\* "for date, aggregated_data in daily_data.items()" over no date at all
ReturnNoResults ==
    /\ analyze_pc = "aggregate"
    /\ data_pos > Len(data)
    /\ DOMAIN daily_data = {}
    /\ analyze_pc' = "done"
    /\ UNCHANGED <<today, runVars, data, data_pos, daily_data, batch, model_text,
                   analysis_results, parseVars, scrapeVars>>

\* the iteration of the only date there is, up to the prompt
PrepareBatch ==
    /\ analyze_pc = "aggregate"
    /\ data_pos > Len(data)
    /\ \E date \in DOMAIN daily_data : batch' = BatchOf(date, daily_data[date])
    /\ analyze_pc' = "call"
    /\ UNCHANGED <<today, runVars, data, data_pos, daily_data, model_text,
                   analysis_results, parseVars, scrapeVars>>

\* "if total_data_points < 2": the model is not called
InsufficientData ==
    /\ analyze_pc = "call"
    /\ total_data_points(batch) < MinDataPoints
    /\ model_text' = Str(InsufficientDataText)
    /\ analyze_pc' = "parse"
    /\ UNCHANGED <<today, runVars, data, data_pos, daily_data, batch, analysis_results,
                   parseVars, scrapeVars>>

\* openai.ChatCompletion.create returns
ModelResponds ==
    /\ analyze_pc = "call"
    /\ total_data_points(batch) >= MinDataPoints
    /\ \E content \in ResponseContents : model_text' = Str(TextOfContent(content))
    /\ analyze_pc' = "parse"
    /\ UNCHANGED <<today, runVars, data, data_pos, daily_data, batch, analysis_results,
                   parseVars, scrapeVars>>

\* openai.ChatCompletion.create raises: one of the three except branches
ModelRaises ==
    /\ analyze_pc = "call"
    /\ total_data_points(batch) >= MinDataPoints
    /\ \E e \in ErrorMessages : \E text \in ErrorTexts(e) : model_text' = Str(text)
    /\ analyze_pc' = "parse"
    /\ UNCHANGED <<today, runVars, data, data_pos, daily_data, batch, analysis_results,
                   parseVars, scrapeVars>>

\* "Parse the analysis", append the record; the loop over dates ends
ParseBatch ==
    /\ analyze_pc = "parse"
    /\ analysis_results' =
          Append(analysis_results,
                 parse_analysis(model_text, BatchLabel(batch), today).value)
    /\ analyze_pc' = "done"
    /\ UNCHANGED <<today, runVars, data, data_pos, daily_data, batch, model_text,
                   parseVars, scrapeVars>>

NextAnalyze ==
    \/ SkipItem
    \/ AddItem
    \/ ReturnNoResults
    \/ PrepareBatch
    \/ InsufficientData
    \/ ModelResponds
    \/ ModelRaises
    \/ ParseBatch

SpecAnalyze == InitAnalyze /\ [][NextAnalyze]_vars

-----------------------------------------------------------------------------
(* Properties of the scrape functions and of analyze_for_infineon *)

AllUrlsFailed ==
    /\ scrape_pc = "returned"
    /\ Len(fetch_log) = Len(ScrapeProfile.news_urls)
    /\ \A i \in 1..Len(fetch_log) : fetch_log[i] \in FetchErrors

\* C9: when every candidate URL of a source raised, the returned result has
\* the error field set and empty headline, insight and signal lists
C9_AllUrlsFailedIsErrorTagged ==
    AllUrlsFailed =>
        /\ "error" \in DOMAIN scrape_ret
        /\ Get(scrape_ret, "headlines", <<>>) = <<>>
        /\ Get(scrape_ret, "key_insights", <<>>) = <<>>
        /\ Get(scrape_ret, "market_signals", <<>>) = <<>>

\* C6: every record analyze_for_infineon returns has a non-empty Key insights
\* value, whatever the outcome of the model call was
C6_KeyInsightsNonEmpty ==
    analyze_pc = "done" =>
        \A i \in 1..Len(analysis_results) : analysis_results[i].Key_insights # ""

\* a result of a source that carries an error field
ErrorTagged(item) ==
    IF item.key = "scraping_timestamp" THEN FALSE ELSE "error" \in DOMAIN item.value

\* the items the aggregation loop has been through
Processed == SubSeq(data, 1, data_pos - 1)

Contributors ==
    SelectSeq(Processed,
              LAMBDA item : item.key # "scraping_timestamp" /\ ~ErrorTagged(item))

Day == Get(daily_data, today, EmptyDay)

ListFields == {"headlines", "key_insights", "market_signals"}

InDay(text) ==
    \/ \E j \in 1..Len(Day.headlines) : Day.headlines[j] = text
    \/ \E j \in 1..Len(Day.insights) : Day.insights[j] = text
    \/ \E j \in 1..Len(Day.signals) : Day.signals[j] = text

\* none of the texts is among the day's headlines, insights or signals
NoneInDay(texts) == \A j \in 1..Len(texts) : ~InDay(texts[j])

\* none of the result's own strings is in the day
AddsNothing(item) ==
    \A f \in ListFields : NoneInDay(Get(item.value, f, <<>>))

\* C10: a result that carries an error field adds nothing to the daily batch:
\* the batch's sources are exactly the sources of the results without an error
\* field, in order, and none of the strings the error-tagged result holds is
\* among the batch's headlines, insights or signals
C10_ErrorTaggedExcluded ==
    /\ DOMAIN daily_data \subseteq {today}
    /\ Day.sources = [i \in 1..Len(Contributors) |->
                         Get(Contributors[i].value, "source", "Unknown")]
    /\ \A i \in 1..Len(Processed) :
          ErrorTagged(Processed[i]) => AddsNothing(Processed[i])
    /\ analyze_pc \in {"call", "parse", "done"} /\ batch # <<>> =>
          /\ batch.all_sources = Day.sources
          /\ \A j \in 1..Len(batch.all_headlines) : InDay(batch.all_headlines[j])
          /\ \A j \in 1..Len(batch.all_insights) : InDay(batch.all_insights[j])
          /\ \A j \in 1..Len(batch.all_signals) : InDay(batch.all_signals[j])

\* an error-tagged result that holds lists the aggregation would keep was
\* passed over after another source had been aggregated, and the run produced
\* its record
C10_Witness ==
    /\ analyze_pc = "done"
    /\ Len(analysis_results) = 1
    /\ Day.headlines # <<>>
    /\ \E i \in 2..Len(data) :
          /\ ErrorTagged(data[i])
          /\ ~ErrorTagged(data[i - 1])
          /\ "headlines" \in DOMAIN data[i].value
          /\ data[i].value.headlines # <<>>
          /\ Contribution(data[i].value, "headlines") = data[i].value.headlines

-----------------------------------------------------------------------------
(* Properties of the daily batch *)

\* the lists of the batch that go into the prompt
BatchLists == <<batch.all_headlines, batch.all_insights, batch.all_signals>>

\* the batch is built and is about to be handed to the model
BatchReady == analyze_pc = "call"

NoDuplicates(xs) == \A i, j \in 1..Len(xs) : i # j => xs[i] # xs[j]

\* C11: no field of the batch handed to the model holds the same string twice
C11_BatchDeduplicated ==
    BatchReady => \A f \in 1..Len(BatchLists) : NoDuplicates(BatchLists[f])

\* the relevance-keyword predicate over the broad vocabulary
Relevant(text) == ContainsAny(Lower(text), RelevantKeywords)

\* C12: every entry of every field of the batch contains, case-insensitively,
\* a term of the broad relevance vocabulary, whether it was kept at its cleaned
\* length or truncated to 150 characters plus an ellipsis
C12_BatchEntriesRelevant ==
    BatchReady =>
        \A f \in 1..Len(BatchLists) :
            \A j \in 1..Len(BatchLists[f]) : Relevant(BatchLists[f][j])

\* a batch with an entry kept at its cleaned length and a truncated entry
C12_Witness ==
    /\ BatchReady
    /\ \E j \in 1..Len(batch.all_headlines) :
          /\ Len(batch.all_headlines[j]) > MinChars
          /\ Len(batch.all_headlines[j]) < MaxChars
    /\ \E j \in 1..Len(batch.all_insights) :
          /\ Len(batch.all_insights[j]) = MaxChars + 3
          /\ SubSeq(batch.all_insights[j], MaxChars + 1, MaxChars + 3) = "..."

DayNext == Get(daily_data', today, EmptyDay)

\* one iteration of the aggregation loop adds one source at most, and at most
\* 2 entries to each list of the day
GrowthWithinLimit ==
    /\ data_pos' <= data_pos + 1
    /\ Len(DayNext.sources) <= Len(Day.sources) + 1
    /\ Len(DayNext.headlines) <= Len(Day.headlines) + PerSourceLimit
    /\ Len(DayNext.insights) <= Len(Day.insights) + PerSourceLimit
    /\ Len(DayNext.signals) <= Len(Day.signals) + PerSourceLimit

BatchCapped ==
    analyze_pc \in {"call", "parse", "done"} /\ batch # <<>> =>
        \A f \in 1..Len(BatchLists) : Len(BatchLists[f]) <= BatchLimit

\* C13: each list of the batch embedded in the prompt has at most 5 entries,
\* and every single source added at most 2 entries to each list of the day
C13_BatchCaps == [](BatchCapped) /\ [][GrowthWithinLimit]_vars

\* three sources gave two signals each and the batch holds five of the six
C13_Witness ==
    /\ BatchReady
    /\ Len(batch.all_sources) = 3
    /\ Len(Day.signals) = 3 * PerSourceLimit
    /\ Len(batch.all_signals) = BatchLimit

\* single-spaced, with no leading or trailing whitespace
Normalized(text) == text = NormalizeSpace(text)

\* at most 5 entries, the first ones of what was extracted, each normalised
CappedPrefix(kept, extracted) ==
    /\ Len(kept) <= ResultLimit
    /\ kept = SubSeq(extracted, 1, Len(kept))
    /\ \A j \in 1..Len(kept) : Normalized(kept[j])

\* C14: a result returned without an error has at most 5 headlines, 5 insights
\* and 5 signals, the first ones in extraction order, and every string in it
\* is single-spaced with no leading or trailing whitespace
C14_ResultCapsAndOrder ==
    scrape_pc = "returned" /\ "error" \notin DOMAIN scrape_ret =>
        /\ CappedPrefix(scrape_ret.headlines, scrape_data.headlines)
        /\ CappedPrefix(scrape_ret.key_insights, scrape_data.key_insights)
        /\ CappedPrefix(scrape_ret.market_signals, scrape_data.market_signals)

\* more than 5 headlines were extracted and 5 were returned
C14_Witness ==
    /\ scrape_pc = "returned"
    /\ Len(scrape_data.headlines) > ResultLimit
    /\ Len(scrape_ret.headlines) = ResultLimit
    /\ scrape_ret.headlines[1] = ManyHeadlines[1]

\* the model call of the batch raised
ModelCallFailed ==
    /\ model_text.type = "str"
    /\ \E e \in ErrorMessages : model_text.value \in ErrorTexts(e)

\* C15: when the model call fails, analyze_for_infineon still returns the
\* batch's record, and its Key insights is the placeholder text that describes
\* the failure
C15_FailurePlaceholderNarrative ==
    analyze_pc = "done" /\ ModelCallFailed =>
        /\ Len(analysis_results) = 1
        /\ analysis_results[1].Key_insights = model_text.value

-----------------------------------------------------------------------------
(* ConfigurableIntelligenceScraper: add_source, remove_source and           *)
(* scrape_all_sources                                                       *)

\* most add_source and remove_source calls before the scrape
MaxEdits == 2

\* the keys a caller adds or removes: the configured ones and one more
EditKeys == {"canary", "industryweek", "eia", "reuters"}

\* self.sources[key] = {...}: a new key goes last, a known key keeps its place
add_source(srcs, key) ==
    IF \E i \in 1..Len(srcs) : srcs[i] = key THEN srcs ELSE Append(srcs, key)

\* self.sources.pop(key) if the key is there
remove_source(srcs, key) == SelectSeq(srcs, LAMBDA k : k # key)

\* the if/elif chain of scrape_all_sources, reduced to its first branch
HasHandler_first_only(key) == key = "canary"

\* the if/elif chain of scrape_all_sources
HasHandler(key) == key = "canary" \/ key = "industryweek" \/ key = "eia"

\* how a scrape function ends: with lists, with nothing after every candidate
\* failed, or in its outer except branch
ScrapeOutcomes == {"energy", "failed", "error"}

InitScrapeAll ==
    /\ today \in Dates
    /\ sources = SourceKeys
    /\ edits = 0
    /\ all_pc = "configure"
    /\ all_pos = 0
    /\ self_data = <<>>
    /\ MainIdle
    /\ SchedIdle
    /\ ParseIdle
    /\ ScrapeIdle
    /\ AnalyzeIdle

AddSource ==
    /\ all_pc = "configure"
    /\ edits < MaxEdits
    /\ \E key \in EditKeys : sources' = add_source(sources, key)
    /\ edits' = edits + 1
    /\ UNCHANGED <<today, all_pc, all_pos, self_data, mainVars, schedVars,
                   parseVars, scrapeVars, analyzeVars>>

RemoveSource ==
    /\ all_pc = "configure"
    /\ edits < MaxEdits
    /\ \E key \in EditKeys : sources' = remove_source(sources, key)
    /\ edits' = edits + 1
    /\ UNCHANGED <<today, all_pc, all_pos, self_data, mainVars, schedVars,
                   parseVars, scrapeVars, analyzeVars>>

\* "self.data = {}" and the start of the loop over self.sources
StartScrapeAll ==
    /\ all_pc = "configure"
    /\ self_data' = <<>>
    /\ all_pos' = 1
    /\ all_pc' = "loop"
    /\ UNCHANGED <<today, sources, edits, mainVars, schedVars,
                   parseVars, scrapeVars, analyzeVars>>

\* a key with a handler: self.data[key] is what its scrape function returns,
\* however the scrape went
ScrapeSource ==
    /\ all_pc = "loop"
    /\ all_pos <= Len(sources)
    /\ HasHandler(sources[all_pos])
    /\ \E kind \in ScrapeOutcomes :
          self_data' = Append(self_data,
                              [key |-> sources[all_pos],
                               value |-> Results[kind][sources[all_pos]][today]])
    /\ all_pos' = all_pos + 1
    /\ UNCHANGED <<today, sources, edits, all_pc, mainVars, schedVars,
                   parseVars, scrapeVars, analyzeVars>>

\* a key with no branch in the chain: nothing is stored for it
NoHandler ==
    /\ all_pc = "loop"
    /\ all_pos <= Len(sources)
    /\ ~HasHandler(sources[all_pos])
    /\ all_pos' = all_pos + 1
    /\ UNCHANGED <<today, sources, edits, all_pc, self_data, mainVars, schedVars,
                   parseVars, scrapeVars, analyzeVars>>

\* "self.data['scraping_timestamp'] = ..." and return self.data
FinishScrapeAll ==
    /\ all_pc = "loop"
    /\ all_pos > Len(sources)
    /\ self_data' = Append(self_data,
                           [key |-> "scraping_timestamp", value |-> Timestamp(today)])
    /\ all_pc' = "returned"
    /\ UNCHANGED <<today, sources, edits, all_pos, mainVars, schedVars,
                   parseVars, scrapeVars, analyzeVars>>

ScrapeLoop == ScrapeSource \/ NoHandler \/ FinishScrapeAll

NextScrapeAll == AddSource \/ RemoveSource \/ StartScrapeAll \/ ScrapeLoop

\* the loop is sequential code whose every step returns
SpecScrapeAll == InitScrapeAll /\ [][NextScrapeAll]_vars /\ WF_vars(ScrapeLoop)

\* the keys of the results stored so far
StoredKeys == {self_data[i].key : i \in 1..Len(self_data)}

\* the map returned has every configured source that has a scrape function,
\* and the timestamp
ReturnedComplete ==
    all_pc = "returned" =>
        /\ "scraping_timestamp" \in StoredKeys
        /\ \A i \in 1..Len(sources) :
              (\E k \in 1..Len(SourceKeys) : SourceKeys[k] = sources[i])
                  => sources[i] \in StoredKeys

\* C16: whatever a source's scrape ends with, scrape_all_sources goes on to
\* every later source that has a handler and returns the map with the timestamp
C16_SourceFailureNeverAborts ==
    /\ [](ReturnedComplete)
    /\ (all_pc = "loop") ~> (all_pc = "returned")

\* the first source ended in its except branch, the second found nothing, and
\* the call returned with the third scraped
C16_Witness ==
    /\ all_pc = "returned"
    /\ Len(self_data) = 4
    /\ "error" \in DOMAIN self_data[1].value
    /\ Get(self_data[2].value, "headlines", <<"none">>) = <<>>
    /\ Get(self_data[3].value, "headlines", <<>>) # <<>>

-----------------------------------------------------------------------------
(* ExcelIntelligenceExporter.export_to_excel,                               *)
(* GoogleSheetsIntelligenceExporter.export_to_sheets and main()             *)

\* most records in the list handed to the exporters
MaxRecords == 2

\* the columns of both exports, as the record fields of this model
Columns == <<"Date", "Key_insights", "Signal", "Risk">>

\* ['Date', 'Key insights', 'Signal', 'Risk']
Headers == [c \in 1..Len(Columns) |-> Replace(Columns[c], "_", " ")]

\* the value pandas puts where a record has no value for a column of the frame
PyNaN == [type |-> "float", value |-> "nan"]

\* pd.DataFrame(analysis_results): its columns are the keys of the records
FrameHas(recs, col) == \E i \in 1..Len(recs) : col \in DOMAIN recs[i]

\* the cell of record i after "if col not in df.columns: df[col] = ''"
FrameCell(recs, i, col) ==
    IF col \in DOMAIN recs[i]
    THEN Str(recs[i][col])
    ELSE IF FrameHas(recs, col) THEN PyNaN ELSE Str("")

\* to_excel writes the cell's value as it is, a missing value included
WrittenCell_raw(cell) == cell.value

\* to_excel: a missing value is written as an empty cell
WrittenCell(cell) == IF cell.type = "float" THEN "" ELSE cell.value

\* df[['Date', 'Key insights', 'Signal', 'Risk']].to_excel(..., index=False)
ExcelTable(recs) ==
    <<Headers>>
    \o [i \in 1..Len(recs) |->
           [c \in 1..Len(Columns) |-> WrittenCell(FrameCell(recs, i, Columns[c]))]]

\* data = [headers] and one row of result.get(column, '') per result
SheetsTable(recs) ==
    <<Headers>>
    \o [i \in 1..Len(recs) |->
           [c \in 1..Len(Columns) |-> Get(recs[i], Columns[c], "")]]

\* records as _parse_analysis builds them, and records that lack fields
RecordChoices ==
    {[Date |-> "2025-01-10", Key_insights |-> "Strong growth in AI",
      Signal |-> "Positive", Risk |-> "High",
      Source |-> "Daily Analysis - Canary Media"],
     [Date |-> "2025-01-11", Key_insights |-> "", Signal |-> "Neutral",
      Risk |-> "Low", Source |-> "Daily Analysis - Industry Week"],
     [Date |-> "2025-01-11", Key_insights |-> "Orders fell", Risk |-> "Medium"],
     [Source |-> "Daily Analysis - EIA Today in Energy"]}

RECURSIVE RecordLists(_)
RecordLists(n) ==
    IF n = 0
    THEN {<<>>}
    ELSE RecordLists(n - 1)
         \cup {Append(recs, r) :
                  recs \in {x \in RecordLists(n - 1) : Len(x) = n - 1},
                  r \in RecordChoices}

\* the statements of main() whose exception reaches its except branch, by the
\* position main() is at
FatalSteps ==
    [raw |-> "raw snapshot", setup |-> "analyzer set-up",
     excel |-> "local export", summary |-> "summary report"]

\* the steps of export_to_sheets that can fail, the constructor included
SheetsSteps == {"construct", "authenticate", "open or create", "update"}

\* where main() is after the remote export raised, were the exception not caught
AfterSheetsExcept_reraise == "raised"

\* where main() is after "except Exception as e" of Step 5b
AfterSheetsExcept == "summary"

InitMain ==
    /\ today \in Dates
    /\ main_pc = "scrape"
    /\ main_error = ""
    /\ records = <<>>
    /\ excel_table = <<>>
    /\ sheets_table = <<>>
    /\ sheets_failure = ""
    /\ summary_written = FALSE
    /\ AllIdle
    /\ SchedIdle
    /\ ParseIdle
    /\ ScrapeIdle
    /\ AnalyzeIdle

\* main() goes from one step to the next, the rest of its state unchanged
MainGoes(from, to) ==
    /\ main_pc = from
    /\ main_pc' = to
    /\ UNCHANGED <<today, main_error, sheets_failure, allVars, schedVars,
                   parseVars, scrapeVars, analyzeVars>>

\* Steps 1 and 2: scrape_all_sources returns, whatever the sources did
ScrapeStep ==
    /\ MainGoes("scrape", "raw")
    /\ UNCHANGED <<records, excel_table, sheets_table, summary_written>>

\* Step 3: the raw data file is written
SaveRawData ==
    /\ MainGoes("raw", "setup")
    /\ UNCHANGED <<records, excel_table, sheets_table, summary_written>>

\* Step 4: the analyzer is built and returns its list, empty if it failed
AnalyzeStep ==
    /\ MainGoes("setup", "excel")
    /\ records' \in RecordLists(MaxRecords)
    /\ UNCHANGED <<excel_table, sheets_table, summary_written>>

\* Step 5: export_to_excel writes the workbook
ExportExcel ==
    /\ MainGoes("excel", "sheets")
    /\ excel_table' = ExcelTable(records)
    /\ UNCHANGED <<records, sheets_table, summary_written>>

\* Step 5b with GOOGLE_SHEETS_AVAILABLE false
SheetsSkipped ==
    /\ MainGoes("sheets", "summary")
    /\ UNCHANGED <<records, excel_table, sheets_table, summary_written>>

\* Step 5b: export_to_sheets updates the worksheet
ExportSheets ==
    /\ MainGoes("sheets", "summary")
    /\ sheets_table' = SheetsTable(records)
    /\ UNCHANGED <<records, excel_table, summary_written>>

\* Step 5b: the exporter raises and main() logs a warning
SheetsExcept ==
    /\ main_pc = "sheets"
    /\ sheets_failure' \in SheetsSteps
    /\ main_pc' = AfterSheetsExcept
    /\ UNCHANGED <<today, main_error, records, excel_table, sheets_table,
                   summary_written, allVars, schedVars, parseVars, scrapeVars,
                   analyzeVars>>

\* Step 6 and the closing log lines: main() returns
WriteSummary ==
    /\ MainGoes("summary", "returned")
    /\ summary_written' = TRUE
    /\ UNCHANGED <<records, excel_table, sheets_table>>

\* "except Exception as e: ... raise" of main()
MainExcept ==
    /\ main_pc \in DOMAIN FatalSteps
    /\ main_error' = FatalSteps[main_pc]
    /\ main_pc' = "raised"
    /\ UNCHANGED <<today, records, excel_table, sheets_table, sheets_failure,
                   summary_written, allVars, schedVars, parseVars, scrapeVars,
                   analyzeVars>>

NextMain ==
    \/ ScrapeStep
    \/ SaveRawData
    \/ AnalyzeStep
    \/ ExportExcel
    \/ SheetsSkipped
    \/ ExportSheets
    \/ SheetsExcept
    \/ WriteSummary
    \/ MainExcept

SpecMain == InitMain /\ [][NextMain]_vars

-----------------------------------------------------------------------------
(* Properties of main() and of the exporters *)

\* C17: main() ends with an exception only if the local spreadsheet export
\* failed
C17_OnlyLocalExportAborts ==
    main_pc = "raised" => main_error = "local export"

\* C18: after a failure of the remote export, at whichever of its steps, the
\* local table is still the one that was written, no exception of the remote
\* export has left main(), and main() has returned only with the summary
\* report written
C18_RemoteFailureSwallowed ==
    sheets_failure # "" =>
        /\ excel_table = ExcelTable(records)
        /\ main_pc \in {"summary", "returned", "raised"}
        /\ main_pc = "raised" => main_error = "summary report"
        /\ main_pc = "returned" => summary_written

\* the remote export failed to authenticate and main() returned normally, the
\* local table and the summary report written
C18_Witness ==
    /\ main_pc = "returned"
    /\ sheets_failure = "authenticate"
    /\ sheets_table = <<>>
    /\ Len(excel_table) = 1 + MaxRecords
    /\ summary_written
    /\ main_error = ""

\* the row of a record, '' where it lacks the field
RowOf(r) ==
    <<Get(r, "Date", ""), Get(r, "Key_insights", ""), Get(r, "Signal", ""),
      Get(r, "Risk", "")>>

\* the header row, then one row per record in input order
ExpectedTable(recs) ==
    <<(<<"Date", "Key insights", "Signal", "Risk">>)>>
    \o [i \in 1..Len(recs) |-> RowOf(recs[i])]

\* C19: whatever the records, the empty list included, each exported table is
\* the header row Date, Key insights, Signal, Risk followed by one row per
\* record in input order, with '' for a field the record lacks
C19_ExportedTable ==
    /\ excel_table # <<>> => excel_table = ExpectedTable(records)
    /\ sheets_table # <<>> => sheets_table = ExpectedTable(records)

\* both tables are written for two records of which only the first has a
\* Signal, and the second has no Date
C19_Witness ==
    /\ main_pc = "returned"
    /\ Len(records) = 2
    /\ "Signal" \in DOMAIN records[1]
    /\ "Signal" \notin DOMAIN records[2]
    /\ "Date" \notin DOMAIN records[2]
    /\ Len(excel_table) = 3
    /\ Len(sheets_table) = 3
    /\ excel_table[3][3] = ""

-----------------------------------------------------------------------------
(* scheduled_intelligence.py: run_scheduler in scheduled mode and           *)
(* run_intelligence_job.  Time is counted in periods of the loop's          *)
(* time.sleep(60).                                                          *)

\* the interval between runs, in sleep periods
IntervalPeriods == 2

\* the time up to which the scheduler is followed
MaxClock == 8

\* where the scheduler is after launching the process, were it not to wait
LaunchedPc_no_wait == "sleep"

\* subprocess.run returns only when the process has exited
LaunchedPc == "wait"

\* setup_schedule: the job is first due one interval from now
InitSched ==
    /\ today \in Dates
    /\ sched_pc = "pending"
    /\ clock = 0
    /\ next_run = IntervalPeriods
    /\ running = 0
    /\ started_at = 0
    /\ job_returns = <<>>
    /\ AllIdle
    /\ MainIdle
    /\ ParseIdle
    /\ ScrapeIdle
    /\ AnalyzeIdle

\* schedule.run_pending() with the job not yet due
NothingDue ==
    /\ sched_pc = "pending"
    /\ clock < next_run
    /\ sched_pc' = "sleep"
    /\ UNCHANGED <<today, clock, next_run, running, started_at, job_returns,
                   allVars, mainVars, parseVars, scrapeVars, analyzeVars>>

\* schedule.run_pending() calls run_intelligence_job
JobStarts ==
    /\ sched_pc = "pending"
    /\ clock >= next_run
    /\ sched_pc' = "job"
    /\ UNCHANGED <<today, clock, next_run, running, started_at, job_returns,
                   allVars, mainVars, parseVars, scrapeVars, analyzeVars>>

\* the job without its try/except: the exception leaves run_pending and
\* run_scheduler
JobFailsEarly_raises ==
    /\ sched_pc = "job"
    /\ sched_pc' = "crashed"
    /\ UNCHANGED <<today, clock, next_run, running, started_at, job_returns,
                   allVars, mainVars, parseVars, scrapeVars, analyzeVars>>

\* the interpreter or the script is missing, or launching raises: the job
\* returns False without a process, and the next run is scheduled
JobFailsEarly ==
    /\ sched_pc = "job"
    /\ job_returns' = Append(job_returns, FALSE)
    /\ next_run' = clock + IntervalPeriods
    /\ sched_pc' = "sleep"
    /\ UNCHANGED <<today, clock, running, started_at, allVars, mainVars,
                   parseVars, scrapeVars, analyzeVars>>

\* subprocess.run([python_exe, main_script], ...) starts the pipeline
LaunchProcess ==
    /\ sched_pc = "job"
    /\ running' = running + 1
    /\ started_at' = clock
    /\ sched_pc' = LaunchedPc
    /\ UNCHANGED <<today, clock, next_run, job_returns, allVars, mainVars,
                   parseVars, scrapeVars, analyzeVars>>

\* the pipeline is still running: time passes in subprocess.run
ProcessRuns ==
    /\ sched_pc = "wait"
    /\ clock < MaxClock
    /\ clock' = clock + 1
    /\ UNCHANGED <<today, sched_pc, next_run, running, started_at, job_returns,
                   allVars, mainVars, parseVars, scrapeVars, analyzeVars>>

\* the process exits; the job returns returncode == 0 and the next run is
\* scheduled from now
ProcessExits ==
    /\ sched_pc = "wait"
    /\ running' = running - 1
    /\ \E returncode \in {0, 1} : job_returns' = Append(job_returns, returncode = 0)
    /\ next_run' = clock + IntervalPeriods
    /\ sched_pc' = "sleep"
    /\ UNCHANGED <<today, clock, started_at, allVars, mainVars,
                   parseVars, scrapeVars, analyzeVars>>

\* time.sleep(60)
Sleep ==
    /\ sched_pc = "sleep"
    /\ clock < MaxClock
    /\ clock' = clock + 1
    /\ sched_pc' = "pending"
    /\ UNCHANGED <<today, next_run, running, started_at, job_returns,
                   allVars, mainVars, parseVars, scrapeVars, analyzeVars>>

\* Ctrl+C: KeyboardInterrupt is no Exception, so it passes the job's except
\* branch (subprocess.run kills the process on its way out) and reaches the
\* except branch of run_scheduler, which returns True
Interrupt ==
    /\ sched_pc \in {"pending", "sleep", "job", "wait"}
    /\ running' = 0
    /\ sched_pc' = "stopped"
    /\ UNCHANGED <<today, clock, next_run, started_at, job_returns,
                   allVars, mainVars, parseVars, scrapeVars, analyzeVars>>

NextSched ==
    \/ NothingDue
    \/ JobStarts
    \/ JobFailsEarly
    \/ LaunchProcess
    \/ ProcessRuns
    \/ ProcessExits
    \/ Sleep
    \/ Interrupt

SpecSched == InitSched /\ [][NextSched]_vars

\* the steps of the loop that do not wait for anything outside it
LoopStep == NothingDue \/ JobStarts \/ Sleep

\* the "while True" loop goes on as long as nothing stops it
SpecSchedLoop == SpecSched /\ WF_vars(LoopStep)

\* at most one pipeline process runs, and while it runs the scheduler is
\* inside subprocess.run
OneProcess == running <= 1 /\ (running = 1 => sched_pc = "wait")

\* the next fire time changes only with no process running
NextRunAfterExit == next_run' # next_run => running' = 0

\* C20: pipeline runs never overlap: at most one process launched by
\* run_intelligence_job is running at any moment, and the next fire time is
\* computed only once the process has exited, however long the run takes
C20_RunsNeverOverlap == [](OneProcess) /\ [][NextRunAfterExit]_vars

\* a second run is still running after more than one interval
C20_Witness ==
    /\ sched_pc = "wait"
    /\ running = 1
    /\ Len(job_returns) >= 1
    /\ clock - started_at > IntervalPeriods
    /\ clock > next_run + IntervalPeriods

-----------------------------------------------------------------------------
(* analyze_for_infineon on the results of a run that lasts past midnight:   *)
(* each scrape function stamps its result with datetime.now() when it       *)
(* starts, and the analyzer reads the clock again when it is called.        *)

\* two consecutive calendar days
RunDays == <<"2025-01-31", "2025-02-01">>

\* what the sources of such a run return
NightKinds == {"energy", "failed", "error"}

\* lists of at most n sources with distinct keys, each with a kind of result
\* and the day it was scraped on, the days in the order of the clock
RECURSIVE NightLists(_)
NightLists(n) ==
    IF n = 0
    THEN {<<>>}
    ELSE NightLists(n - 1)
         \cup {Append(c, [key |-> SourceKeys[k], kind |-> r, day |-> d]) :
                  c \in {x \in NightLists(n - 1) :
                            Len(x) = n - 1},
                  k \in 1..Len(SourceKeys), r \in NightKinds,
                  d \in 1..Len(RunDays)}

InClockOrder(choice) ==
    \A i \in 1..Len(choice) - 1 : choice[i].day <= choice[i + 1].day

\* self.data of scrape_all_sources, stamped when its loop has ended
NightData(choice, end) ==
    [i \in 1..Len(choice) |->
        [key |-> choice[i].key,
         value |-> ResultOf(choice[i].kind, choice[i].key, RunDays[choice[i].day])]]
    \o <<[key |-> "scraping_timestamp", value |-> Timestamp(RunDays[end])]>>

InitAggregate ==
    /\ \E choice \in {c \in NightLists(MaxSources) :
                         DistinctKeys(c) /\ InClockOrder(c)} :
          \E end \in 1..Len(RunDays) :
             /\ \A i \in 1..Len(choice) : choice[i].day <= end
             /\ data = NightData(choice, end)
             /\ today = RunDays[end]
    /\ analyze_pc = "aggregate"
    /\ data_pos = 1
    /\ daily_data = <<>>
    /\ batch = <<>>
    /\ model_text = PyNone
    /\ analysis_results = <<>>
    /\ ParseIdle
    /\ ScrapeIdle
    /\ RunIdle

SpecAggregate == InitAggregate /\ [][NextAnalyze]_vars

\* the calendar date of a result's timestamp
DateOf(source_data) == SubSeq(source_data.timestamp, 1, 10)

\* the display names of the contributing results stamped with the date
SourcesOn(date) ==
    LET on == SelectSeq(Contributors, LAMBDA item : DateOf(item.value) = date)
    IN  [i \in 1..Len(on) |-> Get(on[i].value, "source", "Unknown")]

\* C21: the aggregation holds one batch per distinct calendar date among the
\* timestamps of the contributing results, and the batch of a date holds the
\* sources of the results stamped with that date and no others
C21_OneBatchPerObservedDate ==
    /\ DOMAIN daily_data = {DateOf(Contributors[i].value) : i \in 1..Len(Contributors)}
    /\ \A date \in DOMAIN daily_data : daily_data[date].sources = SourcesOn(date)

-----------------------------------------------------------------------------
(* Further properties of _parse_analysis, checked under SpecParse *)

\* the state of the line scan after the first n lines of the text
ScanPrefix(text, n) ==
    ScanLines(SubSeq(Split(text, "\n"), 1, n), 1,
              [result |-> [Date |-> "", Source |-> "", Key_insights |-> "",
                           Signal |-> "", Risk |-> ""],
               current_section |-> NoSection,
               section_content |-> <<>>])

SectionHeaders == <<"date:", "key insights:", "signal:", "risk:">>

IsDateLine(raw) == StartsWith(Lower(Strip(raw)), "date:")

\* a non-blank line that is not a header
IsContentLine(raw) ==
    /\ Strip(raw) # ""
    /\ \A h \in 1..Len(SectionHeaders) : ~StartsWith(Lower(Strip(raw)), SectionHeaders[h])

\* the line after the n-th went to the buffer of the section open before it
AppendedToEarlierSection(text, n) ==
    LET before == ScanPrefix(text, n - 1)
        after == ScanPrefix(text, n + 1)
    IN  /\ before.current_section # NoSection
        /\ after.current_section = before.current_section
        /\ after.section_content =
              Append(before.section_content, Strip(Split(text, "\n")[n + 1]))

\* C22: a 'date:' line opens a new capture section and clears the buffer as
\* the other three headers do: a non-blank line that follows a 'date:' line
\* is never appended to the section that was open before the 'date:' line
C22_DateLineOpensSection ==
    (phase = "parsed" /\ arg.type = "str") =>
        \A n \in 1..Len(Split(arg.value, "\n")) - 1 :
            (IsDateLine(Split(arg.value, "\n")[n])
             /\ IsContentLine(Split(arg.value, "\n")[n + 1]))
            => ~AppendedToEarlierSection(arg.value, n)

\* the text of a header line after the header
ContentAfter(raw, header) ==
    Strip(SubSeq(Strip(raw), Len(header) + 1, Len(Strip(raw))))

\* the values among the candidates that the text names, case-insensitively
NamedIn(text, candidates) == {c \in candidates : Contains(Lower(text), Lower(c))}

\* the line starts with the header and its content names exactly the value
LineNames(raw, header, candidates, value) ==
    /\ StartsWith(Lower(Strip(raw)), header)
    /\ NamedIn(ContentAfter(raw, header), candidates) = {value}

\* C23: when the response has a 'Signal:' line whose content names exactly one
\* of Positive, Negative, Neutral, the record's Signal is that category,
\* whatever the narrative and the other lines say
C23_SignalLineDecides ==
    (phase = "parsed" /\ arg.type = "str") =>
        \A n \in 1..Len(Split(arg.value, "\n")) : \A c \in Signals :
            LineNames(Split(arg.value, "\n")[n], "signal:", Signals, c)
            => result.Signal = c

\* C24: when the response has a 'Risk:' line whose content names exactly one
\* of Low, Medium, High, the record's Risk is that level, whether or not
\* 'high' or 'medium' appear elsewhere in the response
C24_RiskLineDecides ==
    (phase = "parsed" /\ arg.type = "str") =>
        \A n \in 1..Len(Split(arg.value, "\n")) : \A c \in Risks :
            LineNames(Split(arg.value, "\n")[n], "risk:", Risks, c)
            => result.Risk = c

-----------------------------------------------------------------------------
(* The order of the fetches of a scrape function, checked under SpecScrape *)

\* the dict holds a headline, an insight or a signal
HoldsEntries(d) ==
    Len(d.headlines) + Len(d.key_insights) + Len(d.market_signals) > 0

\* a candidate URL is being fetched
Fetching == fetch_log' # fetch_log

\* the k-th fetch is of the k-th candidate, after fetches that raised or gave
\* nothing
FetchInOrder ==
    Fetching =>
        /\ ~HoldsEntries(scrape_data)
        /\ Len(fetch_log') = Len(fetch_log) + 1
        /\ url_index = Len(fetch_log')
        /\ url_index <= Len(ScrapeProfile.news_urls)

\* what the dict holds was extracted from one page, fetched from the URL the
\* dict records, which is the last one fetched
FromRecordedPage ==
    (scrape_pc \in {"after_loop", "returned"} /\ HoldsEntries(scrape_data)) =>
        /\ fetch_log # <<>>
        /\ fetch_log[Len(fetch_log)] = "ok"
        /\ scrape_data.url = ScrapeProfile.news_urls[Len(fetch_log)]
        /\ \E page \in Pages :
              scrape_data = ScrapePage(InitialData(ScrapeProfile.name, today),
                                       scrape_data.url, page, ScrapeProfile)
        /\ scrape_pc = "returned" =>
              /\ scrape_ret.url = scrape_data.url
              /\ scrape_ret = LimitResults(scrape_data)

\* C25: the candidate URLs are fetched strictly in list order, a URL only
\* after every earlier one raised or yielded no entry, and none after a URL
\* yielded an entry; the lists of the returned result come from the single
\* page whose URL the result records
C25_FetchOrder == [](FromRecordedPage) /\ [][FetchInOrder]_vars

\* the first candidate raised, the second gave nothing and the third gave the
\* entries of the returned result
C25_Witness ==
    /\ scrape_pc = "returned"
    /\ Len(fetch_log) = 3
    /\ fetch_log[1] \in FetchErrors
    /\ fetch_log[2] = "ok"
    /\ fetch_log[3] = "ok"
    /\ scrape_ret.headlines # <<>>
    /\ scrape_ret.url = ScrapeProfile.news_urls[3]

-----------------------------------------------------------------------------
(* scrape_all_sources after add_source and remove_source, checked under      *)
(* SpecScrapeAll                                                            *)

\* the keys now in self.sources
ConfiguredKeys == {sources[i] : i \in 1..Len(sources)}

\* C27: the map scrape_all_sources returns has an entry for every key that is
\* in the scraper's sources after the add_source and remove_source calls, the
\* timestamp, and no entry for any other key
C27_EveryConfiguredSourceScraped ==
    all_pc = "returned" =>
        StoredKeys = ConfiguredKeys \cup {"scraping_timestamp"}

-----------------------------------------------------------------------------
(* The word limit of the narrative, checked under SpecParse *)

\* the narrative the line scan captured from the response
Captured == ScanResponse(arg.value, "", "").Key_insights

\* no header text has leaked into the captured narrative
NoLeakedHeader(text) ==
    ~Contains(Lower(text), "date:") /\ ~Contains(Lower(text), "key insights:")

\* the text up to its last period
UpToLastPeriod(text) ==
    LET periods == Occurrences(text, ".")
    IN  SubSeq(text, 1, periods[Len(periods)])

\* the narrative the word limit is to give
LimitedNarrative(text) ==
    LET words == Words(text)
        truncated == Join(" ", Take(words, WordLimit))
    IN  IF Len(words) <= WordLimit THEN Join(" ", words)
        ELSE IF Contains(truncated, ".") THEN UpToLastPeriod(truncated)
        ELSE truncated \o "..."

\* C26: a captured narrative of more than 200 words becomes its first 200
\* words cut back to their last period, or followed by '...' if they hold no
\* period; a narrative of at most 200 words keeps its words
C26_NarrativeTruncation ==
    (phase = "parsed" /\ arg.type = "str") =>
        (Captured = "" \/ ~NoLeakedHeader(Captured)
         \/ Words(result.Key_insights) = Words(LimitedNarrative(Captured)))

-----------------------------------------------------------------------------
(* The model call and the record of a batch *)

\* the entries of the batch's capped lists
Entries == Len(batch.all_headlines) + Len(batch.all_insights) + Len(batch.all_signals)

\* the text to parse is being set for the batch
TextSet == analyze_pc = "call" /\ analyze_pc' = "parse"

\* the text is the fixed one exactly when the batch holds fewer than 2
\* entries; otherwise it is what the model call gave
CallOnlyWithEnough ==
    TextSet =>
        IF Entries < MinDataPoints
        THEN model_text' = Str(InsufficientDataText)
        ELSE model_text' # Str(InsufficientDataText)

\* the batch, once parsed, gave one record, parsed from the fixed text if the
\* batch holds fewer than 2 entries
OneRecordPerBatch ==
    (analyze_pc = "done" /\ batch # <<>>) =>
        /\ Len(analysis_results) = 1
        /\ Entries < MinDataPoints =>
              /\ model_text = Str(InsufficientDataText)
              /\ analysis_results[1] =
                    parse_analysis(Str(InsufficientDataText), BatchLabel(batch),
                                   today).value

\* C28: the model is called for a batch only if its capped headlines, insights
\* and signals together hold at least 2 entries; with fewer the fixed
\* insufficient-data text is parsed instead, and the batch still gives exactly
\* one record
C28_ModelCallNeedsTwoEntries == [](OneRecordPerBatch) /\ [][CallOnlyWithEnough]_vars

\* a batch of two sources with one entry gave its record without a call
C28_Witness ==
    /\ analyze_pc = "done"
    /\ batch # <<>>
    /\ Len(batch.all_sources) = 2
    /\ Entries = MinDataPoints - 1
    /\ model_text = Str(InsufficientDataText)
    /\ Len(analysis_results) = 1

\* C29: the record produced for a daily batch carries the batch's date,
\* whatever text the model returned
C29_RecordDateIsBatchDate ==
    (analyze_pc = "done" /\ batch # <<>>) =>
        \A i \in 1..Len(analysis_results) : analysis_results[i].Date = batch.date

-----------------------------------------------------------------------------
(* Failed runs under the scheduler, checked under SpecSchedLoop *)

\* run_intelligence_job is being left
JobLeft == sched_pc \in {"job", "wait"} /\ sched_pc' \notin {"job", "wait"}

\* the job is left by Ctrl+C or by returning; a return is recorded, schedules
\* the next run one interval from now and goes on to the loop's sleep
ReturnsAndReschedules ==
    JobLeft =>
        \/ sched_pc' = "stopped"
        \/ /\ Len(job_returns') = Len(job_returns) + 1
           /\ next_run' = clock + IntervalPeriods
           /\ sched_pc' = "sleep"

\* the job has just returned False, with an interval left to follow
RunFailed ==
    /\ sched_pc = "sleep"
    /\ job_returns # <<>>
    /\ ~job_returns[Len(job_returns)]
    /\ next_run = clock + IntervalPeriods
    /\ next_run <= MaxClock

\* the job fires at its next fire time
FiresAgain == sched_pc = "job" /\ clock = next_run

\* C30: in scheduled mode a failed run neither stops the scheduler nor cancels
\* the job: run_intelligence_job returns False without raising, and unless
\* the user stops the scheduler the job fires again after the next interval
C30_FailureKeepsSchedule ==
    /\ [][ReturnsAndReschedules]_vars
    /\ RunFailed ~> (FiresAgain \/ sched_pc = "stopped")

\* the job fires for the third time, after two failed runs
C30_Witness ==
    /\ FiresAgain
    /\ job_returns = <<FALSE, FALSE>>
    /\ clock >= 3 * IntervalPeriods

====
